---- MODULE Spec2Model ----
(***************************************************************************)
(* Model of src/Querying_KG.ipynb: the natural-language-to-Cypher retry    *)
(* loop (query_neo4j_with_reasoning) together with the pure helpers it     *)
(* calls (validate_cypher_query, extract_cypher_from_response,            *)
(* generate_enhanced_cypher, improve_cypher_with_context,                  *)
(* provide_intelligent_answer).                                            *)
(*                                                                         *)
(* Text is a sequence of one-character strings, so that the regular        *)
(* expressions of the source are evaluated position by position.           *)
(***************************************************************************)
EXTENDS Integers, Sequences, FiniteSets, TLC

(***************************************************************************)
(* Bounds of the model.                                                    *)
(***************************************************************************)
\* number of non-empty questions typed at the prompt
MaxQuestions == 2
\* number of tokens of a candidate handed to validate_cypher_query
MaxTokens == 3
\* number of tokens of a response handed to extract_cypher_from_response
MaxRespTokens == 4

(***************************************************************************)
(* Characters.                                                             *)
(***************************************************************************)
LowerSeq ==
  <<"a","b","c","d","e","f","g","h","i","j","k","l","m",
    "n","o","p","q","r","s","t","u","v","w","x","y","z">>

UpperSeq ==
  <<"A","B","C","D","E","F","G","H","I","J","K","L","M",
    "N","O","P","Q","R","S","T","U","V","W","X","Y","Z">>

Range(s) == { s[i] : i \in 1..Len(s) }

\* re.IGNORECASE / str.upper(): case folding of one character
UpperMap ==
  [ c \in Range(LowerSeq) |-> UpperSeq[CHOOSE i \in 1..26 : LowerSeq[i] = c] ]

Upper(c) == IF c \in DOMAIN UpperMap THEN UpperMap[c] ELSE c

\* str.lower() of one character
LowerMap ==
  [ c \in Range(UpperSeq) |-> LowerSeq[CHOOSE i \in 1..26 : UpperSeq[i] = c] ]

Lower(c) == IF c \in DOMAIN LowerMap THEN LowerMap[c] ELSE c

\* \w of the re module
IsWord(c) ==
  c \in Range(LowerSeq) \cup Range(UpperSeq)
        \cup {"0","1","2","3","4","5","6","7","8","9","_"}

\* \s of the re module, and the characters str.strip() removes
IsWs(c) == c \in {" ", "\n", "\t", "\r"}

UpperStr(s) == [ i \in 1..Len(s) |-> Upper(s[i]) ]

LowerStr(s) == [ i \in 1..Len(s) |-> Lower(s[i]) ]

(***************************************************************************)
(* Regular-expression primitives.                                          *)
(***************************************************************************)
\* the literal lit occurs in s at position i, ignoring case
LitAt(s, i, lit) ==
  /\ i >= 1
  /\ i + Len(lit) - 1 <= Len(s)
  /\ \A k \in 1..Len(lit) : Upper(s[i + k - 1]) = Upper(lit[k])

\* \b between s[i-1] and s[i]
Boundary(s, i) ==
  LET before == i >= 2 /\ i - 1 <= Len(s) /\ IsWord(s[i - 1])
      after  == i >= 1 /\ i <= Len(s) /\ IsWord(s[i])
  IN  before # after

\* str.strip()
Strip(s) ==
  LET nonws == { i \in 1..Len(s) : ~IsWs(s[i]) }
  IN  IF nonws = {} THEN << >>
      ELSE LET lo == CHOOSE i \in nonws : \A j \in nonws : i <= j
               hi == CHOOSE i \in nonws : \A j \in nonws : i >= j
           IN  SubSeq(s, lo, hi)

\* str.endswith answering False
EndsWith_Never(s, suffix) == FALSE

\* str.endswith
EndsWith(s, suffix) ==
  /\ Len(suffix) <= Len(s)
  /\ SubSeq(s, Len(s) - Len(suffix) + 1, Len(s)) = suffix

\* the substring sub occurs in s (the Python `in` of two strings)
Contains(s, sub) ==
  \E i \in 1..(Len(s) + 1) :
     /\ i + Len(sub) - 1 <= Len(s)
     /\ SubSeq(s, i, i + Len(sub) - 1) = sub

Min(S) == CHOOSE x \in S : \A y \in S : x <= y

(***************************************************************************)
(* Literals of the source.                                                 *)
(***************************************************************************)
W_DROP   == <<"D","R","O","P">>
W_DELETE == <<"D","E","L","E","T","E">>
W_CREATE == <<"C","R","E","A","T","E">>
W_SET    == <<"S","E","T">>
W_REMOVE == <<"R","E","M","O","V","E">>
W_MERGE  == <<"M","E","R","G","E">>
W_DETACH == <<"D","E","T","A","C","H">>
W_MATCH  == <<"M","A","T","C","H">>
W_RETURN == <<"R","E","T","U","R","N">>
W_WHERE  == <<"W","H","E","R","E">>
W_WITH   == <<"W","I","T","H">>
W_cypher == <<"c","y","p","h","e","r">>
W_neo4j  == <<"n","e","o","4","j">>
\* the backquote character (U+0060), written as an atom because a TLA+
\* string cannot hold it
Backquote == "BACKQUOTE"

Fence    == <<Backquote, Backquote, Backquote>>
Semi     == <<";">>
BlankLine == <<"\n","\n">>

(***************************************************************************)
(* validate_cypher_query                                                   *)
(***************************************************************************)
\* destructive_patterns without the MERGE entry
destructive_patterns_NoMerge ==
  << <<W_DROP>>, <<W_DELETE>>, <<W_CREATE>>, <<W_SET>>,
     <<W_REMOVE>>, <<W_DETACH, W_DELETE>> >>

\* the list destructive_patterns: each entry is the words of one pattern,
\* \b before the first word, \b after the last, \s+ between two words
destructive_patterns ==
  << <<W_DROP>>, <<W_DELETE>>, <<W_CREATE>>, <<W_SET>>,
     <<W_REMOVE>>, <<W_MERGE>>, <<W_DETACH, W_DELETE>> >>

\* the pattern text shown in the ValueError
PatternName(p) ==
  IF Len(p) = 1 THEN <<"\\b">> \o p[1] \o <<"\\b">>
  ELSE <<"\\b">> \o p[1] \o <<"\\s+">> \o p[2] \o <<"\\b">>

\* the pattern p matches in s starting at position i
PatternAt(s, i, p) ==
  IF Len(p) = 1
  THEN /\ LitAt(s, i, p[1])
       /\ Boundary(s, i)
       /\ Boundary(s, i + Len(p[1]))
  ELSE /\ LitAt(s, i, p[1])
       /\ Boundary(s, i)
       /\ \E j \in (i + Len(p[1]) + 1)..Len(s) :
             /\ \A k \in (i + Len(p[1]))..(j - 1) : IsWs(s[k])
             /\ LitAt(s, j, p[2])
             /\ Boundary(s, j + Len(p[2]))

\* re.search(pattern, s, re.IGNORECASE)
Search(s, p) == \E i \in 1..Len(s) : PatternAt(s, i, p)

NoError == [src |-> "", kind |-> "", pattern |-> << >>, subject |-> << >>]

\* an exception: where it was raised, its kind, the pattern named in an
\* unsafe-query message, and the text whose handling raised it
Err(src, kind, pattern, subject) ==
  [src |-> src, kind |-> kind, pattern |-> pattern, subject |-> subject]

Ok(v) == [ok |-> TRUE, val |-> v, err |-> NoError]

Raise(e) == [ok |-> FALSE, val |-> << >>, err |-> e]

validate_cypher_query(cypher_query) ==
  LET hits == { n \in 1..Len(destructive_patterns) :
                   Search(cypher_query, destructive_patterns[n]) }
      stripped == Strip(cypher_query)
  IN  IF hits # {}
      THEN Raise(Err("validate", "unsafe",
                     PatternName(destructive_patterns[Min(hits)]),
                     cypher_query))
      ELSE IF ~EndsWith(stripped, Semi)
           THEN Ok(stripped \o Semi)
           ELSE Ok(stripped)

(***************************************************************************)
(* extract_cypher_from_response                                            *)
(***************************************************************************)
\* the optional language tag is never consumed
TagLen_None(s, i) == 0

\* length of the optional language tag (?:cypher|neo4j)? at position i
TagLen(s, i) ==
  IF LitAt(s, i, W_cypher) THEN Len(W_cypher)
  ELSE IF LitAt(s, i, W_neo4j) THEN Len(W_neo4j)
  ELSE 0

\* first position at or after i that holds no whitespace (\s* is greedy)
SkipWs(s, i) ==
  Min({ j \in i..(Len(s) + 1) : j = Len(s) + 1 \/ ~IsWs(s[j]) })

\* start of group 1 of cypher_pattern for an opening fence at position i
FenceBodyStart(s, i) == SkipWs(s, i + Len(Fence) + TagLen(s, i + Len(Fence)))

\* positions of a closing fence for an opening fence at position i
FenceClosers(s, i) ==
  { k \in FenceBodyStart(s, i)..Len(s) : LitAt(s, k, Fence) }

\* positions at which cypher_pattern matches
FenceOpeners(s) ==
  { i \in 1..Len(s) : LitAt(s, i, Fence) /\ FenceClosers(s, i) # {} }

\* re.findall(cypher_pattern, ...)[0]: group 1 of the leftmost match, .*? lazy
FirstFenceBody(s) ==
  LET i == Min(FenceOpeners(s))
  IN  SubSeq(s, FenceBodyStart(s, i), Min(FenceClosers(s, i)) - 1)

\* positions at which match_pattern matches (\Z always closes it)
MatchOpeners(s) == { i \in 1..Len(s) : LitAt(s, i, W_MATCH) }

\* length of the terminator (?:RETURN|;|\n\n|\Z) at position k, -1 if none
TerminatorLen(s, k) ==
  IF LitAt(s, k, W_RETURN) THEN Len(W_RETURN)
  ELSE IF LitAt(s, k, Semi) THEN Len(Semi)
  ELSE IF LitAt(s, k, BlankLine) THEN Len(BlankLine)
  ELSE IF k = Len(s) + 1 THEN 0
  ELSE -1

\* re.findall(match_pattern, ...)[0]: the leftmost match, .*? lazy
FirstMatchSpan(s) ==
  LET i == Min(MatchOpeners(s))
      k == Min({ j \in (i + Len(W_MATCH))..(Len(s) + 1) :
                    TerminatorLen(s, j) >= 0 })
  IN  SubSeq(s, i, k + TerminatorLen(s, k) - 1)

\* the keywords of the last-resort test
cypher_keywords == <<W_MATCH, W_RETURN, W_WHERE, W_WITH>>

extract_cypher_from_response(response_text) ==
  IF FenceOpeners(response_text) # {}
  THEN Ok(Strip(FirstFenceBody(response_text)))
  ELSE IF MatchOpeners(response_text) # {}
  THEN Ok(Strip(FirstMatchSpan(response_text)))
  ELSE IF \E n \in 1..Len(cypher_keywords) :
             Contains(UpperStr(response_text), cypher_keywords[n])
  THEN Ok(Strip(response_text))
  ELSE Raise(Err("extract", "extract", << >>, response_text))

(***************************************************************************)
(* get_openai_response: the text-generation service either raises or       *)
(* returns a completion.                                                   *)
(***************************************************************************)
\* the call failed and get_openai_response re-raised
ApiFailure == Raise(Err("openai", "api", << >>, << >>))

(***************************************************************************)
(* improve_cypher_with_context: every exception is caught and None is     *)
(* returned.  reply is the outcome of get_openai_response.                 *)
(***************************************************************************)
\* Python's None for a query, and a query that is present
None == [some |-> FALSE, val |-> << >>]

Some(v) == [some |-> TRUE, val |-> v]

\* the body of the try block: response, extraction, validation
ImproveTry(reply) ==
  IF ~reply.ok THEN reply
  ELSE LET improved_cypher == extract_cypher_from_response(reply.val)
       IN  IF ~improved_cypher.ok THEN improved_cypher
           ELSE validate_cypher_query(improved_cypher.val)

\* improve_cypher_with_context without its except clause
improve_cypher_with_context_Reraise(reply) ==
  LET r == ImproveTry(reply)
  IN  IF r.ok THEN [raised |-> FALSE, ret |-> Some(r.val)]
      ELSE [raised |-> TRUE, ret |-> None]

\* result: raised tells whether an exception left the function, ret is the
\* returned value
improve_cypher_with_context(reply) ==
  LET r == ImproveTry(reply)
  IN  IF r.ok THEN [raised |-> FALSE, ret |-> Some(r.val)]
      ELSE [raised |-> FALSE, ret |-> None]

(***************************************************************************)
(* generate_enhanced_cypher: every exception is re-raised as ValueError    *)
(* "Failed to generate valid Cypher query: ...".                           *)
(***************************************************************************)
\* the try block without the call of validate_cypher_query
GenerateTry_NoValidate(reply) ==
  IF ~reply.ok THEN reply ELSE extract_cypher_from_response(reply.val)

\* the body of the try block: response, extraction, validation
GenerateTry(reply) ==
  IF ~reply.ok THEN reply
  ELSE LET cy == extract_cypher_from_response(reply.val)
       IN  IF ~cy.ok THEN cy ELSE validate_cypher_query(cy.val)

generate_enhanced_cypher(reply) ==
  LET r == GenerateTry(reply)
  IN  IF r.ok THEN r
      ELSE Raise(Err("generate", r.err.kind, r.err.pattern, r.err.subject))

(***************************************************************************)
(* provide_intelligent_answer: fixed text for an empty frame, otherwise    *)
(* the completion, or a degraded text when the completion call raises.     *)
(***************************************************************************)
\* llm tells whether get_openai_response was called
NoAnswer == [kind |-> "", rows |-> 0, error |-> NoError, llm |-> FALSE]

\* provide_intelligent_answer without the test for an empty frame
provide_intelligent_answer_NoEmptyCheck(results_df, reply) ==
  IF reply.ok
  THEN [kind |-> "analysis", rows |-> Len(results_df), error |-> NoError,
        llm |-> TRUE]
  ELSE [kind |-> "degraded", rows |-> Len(results_df), error |-> reply.err,
        llm |-> TRUE]

provide_intelligent_answer(results_df, reply) ==
  IF Len(results_df) = 0
  THEN [kind |-> "fixed", rows |-> 0, error |-> NoError, llm |-> FALSE]
  ELSE IF reply.ok
  THEN [kind |-> "analysis", rows |-> Len(results_df), error |-> NoError,
        llm |-> TRUE]
  ELSE [kind |-> "degraded", rows |-> Len(results_df), error |-> reply.err,
        llm |-> TRUE]

\* pd.DataFrame() in place of pd.DataFrame(results)
ResultFrame_Empty(rows) == << >>

\* pd.DataFrame(results), and pd.DataFrame() for an empty list: the rows in
\* the order graph.query returned them
ResultFrame(rows) == [ i \in 1..Len(rows) |-> rows[i] ]

(***************************************************************************)
(* Inputs of the collaborators.                                            *)
(***************************************************************************)
Sp == <<" ">>
Nl == <<"\n">>

\* a fenced completion holding a read-only query
RespFenced ==
  Fence \o W_cypher \o Nl \o W_MATCH \o Sp \o <<"n">> \o Sp \o W_RETURN
        \o Sp \o <<"n">> \o Nl \o Fence

\* an unfenced completion holding a read-only query
RespBare == W_MATCH \o Sp \o <<"m">> \o Sp \o W_RETURN \o Sp \o <<"m">>

\* a fenced completion holding a destructive query
RespUnsafe ==
  Fence \o W_cypher \o Nl \o W_MATCH \o Sp \o <<"n">> \o Sp \o W_DETACH
        \o Sp \o W_DELETE \o Sp \o <<"n">> \o Nl \o Fence

\* a completion holding no query
RespProse == <<"S","o","r","r","y">>

\* outcomes of get_openai_response for a query prompt
Replies == {ApiFailure, Ok(RespFenced), Ok(RespBare), Ok(RespUnsafe), Ok(RespProse)}

\* what generate_enhanced_cypher returns or raises, over all completions
GenerateOutcomes == { generate_enhanced_cypher(reply) : reply \in Replies }

\* what improve_cypher_with_context returns, over all completions
ImproveOutcomes == { improve_cypher_with_context(reply) : reply \in Replies }

\* outcomes of get_openai_response for an analysis prompt
AnswerReplies == {ApiFailure, Ok(<<"a">>)}

\* row lists graph.query returns
RowLists == { << >>, <<"row1", "row2">> }

\* lines typed at the prompt
InputLines ==
  { <<"q">>, <<"Q","u","i","t">>, <<" ","e","x","i","t">>, << >>, <<" ">>,
    <<"b","o","o","k","s","?"," ">> }

\* the sentinel inputs without 'q'
Sentinels_NoQ == { <<"e","x","i","t">>, <<"q","u","i","t">> }

\* the sentinel inputs
Sentinels == { <<"e","x","i","t">>, <<"q","u","i","t">>, <<"q">> }

(***************************************************************************)
(* State of query_neo4j_with_reasoning.                                    *)
(***************************************************************************)
VARIABLES
  pc,                \* position: prompt, generate, execute, interpret,
                     \* except, exited
  asked,             \* number of questions that started a retry loop
  question,          \* local question
  attempt,           \* local attempt
  previous_attempts, \* local previous_attempts
  cypherBound,       \* 'cypher' in locals()
  cypher,            \* local cypher
  cypherOrigin,      \* the question (by number) during which cypher was assigned
  exc,               \* the exception caught at `except Exception as e`
  error_msg,         \* local error_msg
  results,           \* local results
  ai_answer,         \* local ai_answer
  exit,              \* how the retry loop was left
  report,            \* the final failure message displayed
  lastCall,          \* the latest call to a collaborator in this retry loop
  nSynth,            \* calls of generate_enhanced_cypher in this retry loop
  nRepair,           \* calls of improve_cypher_with_context in this retry loop
  nRepairOk,         \* those of them that returned a query
  nExec,             \* calls of graph.query in this retry loop
  nExecFail,         \* calls of graph.query that raised
  nAnswer,           \* calls of get_openai_response by provide_intelligent_answer
  nInterp,           \* calls of provide_intelligent_answer in this retry loop
  candidate,         \* argument of a direct call of validate_cypher_query
  vstate,            \* idle, input, done, again
  vresult,           \* result of that call
  vresult2,          \* result of validate_cypher_query on that result
  response,          \* argument of a direct call of extract_cypher_from_response
  xstate,            \* idle, input, done
  xresult            \* result of that call

progVars == <<pc, asked, question, attempt, previous_attempts, cypherBound,
              cypher, cypherOrigin, exc, error_msg, results, ai_answer>>

obsVars == <<exit, report, lastCall, nSynth, nRepair, nRepairOk, nExec, nExecFail, nAnswer, nInterp>>

pureVars == <<candidate, vstate, vresult, vresult2, response, xstate, xresult>>

vars == <<progVars, obsVars, pureVars>>

max_attempts == 3

NoReport ==
  [emitted |-> FALSE, attempts |-> 0, error |-> NoError, hasQuery |-> FALSE,
   query |-> << >>, origin |-> 0, suggestions |-> FALSE]

NoCall ==
  [op |-> "", question |-> 0, attempt |-> 0, query |-> << >>, origin |-> 0, error |-> NoError,
   prior |-> << >>, hasPrior |-> FALSE, ok |-> FALSE, out |-> << >>,
   rows |-> << >>]

\* the entry appended to previous_attempts
\* f"Attempt {attempt}: {cypher} (Error: {error_msg})"; origin is the
\* question during which the query text was produced
AttemptRecord(a, q, e, o) ==
  [attempt |-> a, query |-> q, error |-> e, origin |-> o]

\* previous_attempts.append(...) left out
RecordFailure_Skip(prev, a, q, e, o) == prev

\* previous_attempts.append(...)
RecordFailure(prev, a, q, e, o) == Append(prev, AttemptRecord(a, q, e, o))

\* `attempt += 2`
NextAttempt_Twice(a) == a + 2

\* `attempt += 1`
NextAttempt(a) == a + 1

\* the while condition of the retry loop
LoopCond(a) == a <= max_attempts

\* `if attempt <= max_attempts`
CanRetry_Inclusive(a) == a <= max_attempts

\* `if attempt < max_attempts`
CanRetry(a) == a < max_attempts

\* the final failure message without the suggestions
FinalReport_NoSuggestions(a, e, bound, q, o) ==
  [emitted |-> TRUE, attempts |-> a, error |-> e, hasQuery |-> bound,
   query |-> IF bound THEN q ELSE << >>, origin |-> IF bound THEN o ELSE 0,
   suggestions |-> FALSE]

\* the final failure message
FinalReport(a, e, bound, q, o) ==
  [emitted |-> TRUE, attempts |-> a, error |-> e, hasQuery |-> bound,
   query |-> IF bound THEN q ELSE << >>, origin |-> IF bound THEN o ELSE 0,
   suggestions |-> TRUE]

InitCtl ==
  /\ pc = "prompt"
  /\ asked = 0
  /\ question = << >>
  /\ attempt = 0
  /\ previous_attempts = << >>
  /\ cypherBound = FALSE
  /\ cypher = << >>
  /\ cypherOrigin = 0
  /\ exc = NoError
  /\ error_msg = NoError
  /\ results = << >>
  /\ ai_answer = NoAnswer
  /\ exit = ""
  /\ report = NoReport
  /\ lastCall = NoCall
  /\ nSynth = 0
  /\ nRepair = 0
  /\ nRepairOk = 0
  /\ nExec = 0
  /\ nExecFail = 0
  /\ nAnswer = 0
  /\ nInterp = 0

Init ==
  /\ InitCtl
  /\ candidate = << >>
  /\ vstate = "idle"
  /\ vresult = Ok(<< >>)
  /\ vresult2 = Ok(<< >>)
  /\ response = << >>
  /\ xstate = "idle"
  /\ xresult = Ok(<< >>)

(***************************************************************************)
(* The prompt: input(...).strip(), the sentinels, the empty line, and the  *)
(* start of a retry loop.                                                  *)
(***************************************************************************)
Prompt ==
  /\ pc = "prompt"
  /\ \E line \in InputLines :
       LET q == Strip(line)
       IN  IF LowerStr(q) \in Sentinels
           THEN /\ pc' = "exited"
                /\ question' = q
                /\ UNCHANGED <<asked, attempt, previous_attempts,
                               cypherBound, cypher, cypherOrigin, exc,
                               error_msg, results, ai_answer>>
                /\ UNCHANGED obsVars
           ELSE IF Len(q) = 0
           THEN /\ question' = q
                /\ UNCHANGED <<pc, asked, attempt, previous_attempts,
                               cypherBound, cypher, cypherOrigin, exc,
                               error_msg, results, ai_answer>>
                /\ UNCHANGED obsVars
           ELSE /\ asked < MaxQuestions
                /\ asked' = asked + 1
                /\ question' = q
                /\ attempt' = 1
                /\ previous_attempts' = << >>
                /\ pc' = "generate"
                /\ exit' = "running"
                /\ report' = NoReport
                /\ lastCall' = NoCall
                /\ nSynth' = 0
                /\ nRepair' = 0
                /\ nRepairOk' = 0
                /\ nExec' = 0
                /\ nExecFail' = 0
                /\ nAnswer' = 0
                /\ nInterp' = 0
                /\ UNCHANGED <<cypherBound, cypher, cypherOrigin, exc,
                               error_msg, results, ai_answer>>
  /\ UNCHANGED pureVars

(***************************************************************************)
(* Top of the retry loop: the while condition and the call of              *)
(* generate_enhanced_cypher.                                               *)
(***************************************************************************)
Generate ==
  /\ pc = "generate"
  /\ IF LoopCond(attempt)
     THEN \E r \in GenerateOutcomes :
                /\ nSynth' = nSynth + 1
                /\ lastCall' =
                     [NoCall EXCEPT !.op = "synth", !.question = asked, !.attempt = attempt,
                                    !.prior = previous_attempts,
                                    !.hasPrior = (Len(previous_attempts) > 0),
                                    !.ok = r.ok, !.out = r.val,
                                    !.error = r.err]
                /\ IF r.ok
                   THEN /\ cypher' = r.val
                        /\ cypherBound' = TRUE
                        /\ cypherOrigin' = asked
                        /\ pc' = "execute"
                        /\ UNCHANGED exc
                   ELSE /\ exc' = r.err
                        /\ pc' = "except"
                        /\ UNCHANGED <<cypher, cypherBound, cypherOrigin>>
                /\ UNCHANGED exit
     ELSE /\ pc' = "prompt"
          /\ exit' = "loop_end"
          /\ UNCHANGED <<cypher, cypherBound, cypherOrigin, exc, lastCall,
                         nSynth>>
  /\ UNCHANGED <<asked, question, attempt, previous_attempts, error_msg,
                 results, ai_answer, report, nRepair, nRepairOk, nExec,
                 nExecFail, nAnswer, nInterp>>
  /\ UNCHANGED pureVars

(***************************************************************************)
(* results = graph.query(cypher)                                           *)
(***************************************************************************)
Execute ==
  /\ pc = "execute"
  /\ nExec' = nExec + 1
  /\ \/ \E rows \in RowLists :
          /\ results' = rows
          /\ pc' = "interpret"
          /\ lastCall' =
               [NoCall EXCEPT !.op = "exec", !.question = asked, !.attempt = attempt,
                              !.query = cypher, !.origin = cypherOrigin,
                              !.ok = TRUE, !.rows = rows]
          /\ UNCHANGED <<exc, nExecFail>>
     \/ /\ exc' = Err("neo4j", "db", << >>, cypher)
        /\ pc' = "except"
        /\ nExecFail' = nExecFail + 1
        /\ lastCall' =
             [NoCall EXCEPT !.op = "exec", !.question = asked, !.attempt = attempt,
                            !.query = cypher, !.origin = cypherOrigin,
                            !.ok = FALSE,
                            !.error = Err("neo4j", "db", << >>, cypher)]
        /\ UNCHANGED results
  /\ UNCHANGED <<asked, question, attempt, previous_attempts, cypherBound,
                 cypher, cypherOrigin, error_msg, ai_answer, exit, report,
                 nSynth, nRepair, nRepairOk, nAnswer, nInterp>>
  /\ UNCHANGED pureVars

(***************************************************************************)
(* The success branch: provide_intelligent_answer, the displays, break.    *)
(***************************************************************************)
\* an empty frame makes no completion call, so one reply stands for all
Interpret ==
  /\ pc = "interpret"
  /\ \E reply \in AnswerReplies :
       /\ Len(results) = 0 => reply = ApiFailure
       /\ LET answer == provide_intelligent_answer(ResultFrame(results), reply)
          IN  /\ ai_answer' = answer
              /\ nAnswer' = IF answer.llm THEN nAnswer + 1 ELSE nAnswer
  /\ nInterp' = nInterp + 1
  /\ lastCall' =
       [NoCall EXCEPT !.op = "interpret", !.question = asked, !.attempt = attempt,
                      !.query = cypher, !.origin = cypherOrigin,
                      !.ok = TRUE, !.rows = ResultFrame(results)]
  /\ exit' = "success"
  /\ pc' = "prompt"
  /\ UNCHANGED <<asked, question, attempt, previous_attempts, cypherBound,
                 cypher, cypherOrigin, exc, error_msg, results, report,
                 nSynth, nRepair, nRepairOk, nExec, nExecFail>>
  /\ UNCHANGED pureVars

(***************************************************************************)
(* The except clause of the retry loop.                                    *)
(***************************************************************************)
\* the final failure message and the break after it
FinalFailure ==
  /\ report' = FinalReport(attempt, exc, cypherBound, cypher, cypherOrigin)
  /\ exit' = "final"
  /\ pc' = "prompt"

HandleFailure ==
  /\ pc = "except"
  /\ error_msg' = exc
  /\ IF CanRetry(attempt)
     THEN IF cypherBound
          THEN /\ previous_attempts' =
                    RecordFailure(previous_attempts, attempt, cypher, exc,
                                  cypherOrigin)
               /\ nRepair' = nRepair + 1
               /\ \E improved_cypher \in ImproveOutcomes :
                        /\ nRepairOk' = IF improved_cypher.ret.some
                                        THEN nRepairOk + 1 ELSE nRepairOk
                        /\ lastCall' =
                             [NoCall EXCEPT !.op = "repair",
                                            !.question = asked, !.attempt = attempt,
                                            !.query = cypher,
                                            !.origin = cypherOrigin,
                                            !.error = exc,
                                            !.ok = improved_cypher.ret.some,
                                            !.out = improved_cypher.ret.val]
                        /\ IF improved_cypher.raised
                           THEN /\ FinalFailure
                                /\ UNCHANGED <<attempt, cypher, cypherOrigin>>
                           ELSE /\ IF improved_cypher.ret.some
                                   THEN /\ cypher' = improved_cypher.ret.val
                                        /\ cypherOrigin' = asked
                                   ELSE UNCHANGED <<cypher, cypherOrigin>>
                                /\ attempt' = NextAttempt(attempt)
                                /\ pc' = "generate"
                                /\ UNCHANGED <<exit, report>>
          ELSE /\ exit' = "no_initial"
               /\ pc' = "prompt"
               /\ UNCHANGED <<attempt, previous_attempts, cypher,
                              cypherOrigin, report, lastCall, nRepair,
                              nRepairOk>>
     ELSE /\ FinalFailure
          /\ UNCHANGED <<attempt, previous_attempts, cypher, cypherOrigin,
                         lastCall, nRepair, nRepairOk>>
  /\ UNCHANGED <<asked, question, cypherBound, exc, results, ai_answer,
                 nSynth, nExec, nExecFail, nAnswer, nInterp>>
  /\ UNCHANGED pureVars

Next ==
  \/ Prompt
  \/ Generate
  \/ Execute
  \/ Interpret
  \/ HandleFailure

Spec == Init /\ [][Next]_vars

\* every call is a blocking round trip that returns or raises, and the
\* single thread then continues; only the wait for input may last forever
FairSpec ==
  /\ Spec
  /\ WF_vars(Generate)
  /\ WF_vars(Execute)
  /\ WF_vars(Interpret)
  /\ WF_vars(HandleFailure)

(***************************************************************************)
(* validate_cypher_query called on its own, over every candidate built     *)
(* from at most MaxTokens tokens.                                          *)
(***************************************************************************)
\* the tokens candidates are built from: keywords in several cases, a word
\* character that glues to a neighbour, blanks, the delimiter, punctuation
ValidateTokens ==
  { W_DROP, W_DELETE, <<"D","e","l","e","t","e">>, W_CREATE, W_SET,
    <<"s","e","t">>, W_REMOVE, W_MERGE, W_DETACH, Sp, Nl, Semi, <<"n">>,
    <<"(">> }

RECURSIVE Flatten(_)
Flatten(ts) == IF Len(ts) = 0 THEN << >> ELSE Head(ts) \o Flatten(Tail(ts))

Candidates ==
  { Flatten(ts) : ts \in UNION { [1..n -> ValidateTokens] : n \in 0..MaxTokens } }

InitValidate ==
  /\ InitCtl
  /\ candidate \in Candidates
  /\ vstate = "input"
  /\ vresult = Ok(<< >>)
  /\ vresult2 = Ok(<< >>)
  /\ response = << >>
  /\ xstate = "idle"
  /\ xresult = Ok(<< >>)

Validate ==
  /\ vstate = "input"
  /\ vresult' = validate_cypher_query(candidate)
  /\ vstate' = "done"
  /\ UNCHANGED <<candidate, vresult2, response, xstate, xresult>>
  /\ UNCHANGED <<progVars, obsVars>>

\* validate_cypher_query applied to a query it returned
ValidateAgain ==
  /\ vstate = "done"
  /\ vresult.ok
  /\ vresult2' = validate_cypher_query(vresult.val)
  /\ vstate' = "again"
  /\ UNCHANGED <<candidate, vresult, response, xstate, xresult>>
  /\ UNCHANGED <<progVars, obsVars>>

NextValidate ==
  \/ Validate
  \/ ValidateAgain

SpecValidate == InitValidate /\ [][NextValidate]_vars

(***************************************************************************)
(* extract_cypher_from_response called on its own, over every response     *)
(* built from at most MaxRespTokens tokens.                                *)
(***************************************************************************)
\* the tokens responses are built from: a bare fence, a fence with the
\* language tag, a line break, the match keyword in mixed case, the return
\* keyword, the delimiter, a name
ExtractTokens ==
  { Fence, Fence \o W_cypher, Nl, <<"M","a","t","c","h">>, W_RETURN, Semi,
    <<"n">> }

Responses ==
  { Flatten(ts) :
      ts \in UNION { [1..n -> ExtractTokens] : n \in 0..MaxRespTokens } }

InitExtract ==
  /\ InitCtl
  /\ candidate = << >>
  /\ vstate = "idle"
  /\ vresult = Ok(<< >>)
  /\ vresult2 = Ok(<< >>)
  /\ response \in Responses
  /\ xstate = "input"
  /\ xresult = Ok(<< >>)

Extract ==
  /\ xstate = "input"
  /\ xresult' = extract_cypher_from_response(response)
  /\ xstate' = "done"
  /\ UNCHANGED <<candidate, vstate, vresult, vresult2, response>>
  /\ UNCHANGED <<progVars, obsVars>>

NextExtract == Extract

SpecExtract == InitExtract /\ [][NextExtract]_vars

(***************************************************************************)
(* Vocabulary of the properties.                                           *)
(***************************************************************************)
\* s[i..j] is a maximal run of word characters
IsWholeWord(s, i, j) ==
  /\ 1 <= i /\ i <= j /\ j <= Len(s)
  /\ \A k \in i..j : IsWord(s[k])
  /\ (i = 1 \/ ~IsWord(s[i - 1]))
  /\ (j = Len(s) \/ ~IsWord(s[j + 1]))

\* kw is, up to case, one of the words of s
HasWord(s, kw) ==
  \E i \in 1..Len(s) :
     /\ i + Len(kw) - 1 <= Len(s)
     /\ IsWholeWord(s, i, i + Len(kw) - 1)
     /\ UpperStr(SubSeq(s, i, i + Len(kw) - 1)) = kw

\* the word k1, blanks, then the word k2
HasWordPair(s, k1, k2) ==
  \E i \in 1..Len(s) : \E j \in (i + Len(k1) + 1)..Len(s) :
     /\ j + Len(k2) - 1 <= Len(s)
     /\ IsWholeWord(s, i, i + Len(k1) - 1)
     /\ UpperStr(SubSeq(s, i, i + Len(k1) - 1)) = k1
     /\ \A k \in (i + Len(k1))..(j - 1) : IsWs(s[k])
     /\ IsWholeWord(s, j, j + Len(k2) - 1)
     /\ UpperStr(SubSeq(s, j, j + Len(k2) - 1)) = k2

\* creation, deletion, property assignment, detachment-deletion, merge, removal
HasListedKeyword(s) ==
  \/ HasWord(s, W_CREATE)
  \/ HasWord(s, W_DELETE)
  \/ HasWord(s, W_SET)
  \/ HasWordPair(s, W_DETACH, W_DELETE)
  \/ HasWord(s, W_MERGE)
  \/ HasWord(s, W_REMOVE)

\* out is s without its surrounding blanks, closed by one delimiter that is
\* added only when s does not already end with it
IsTrimmedAndDelimited(s, out) ==
  \E i \in 1..(Len(s) + 1) : \E j \in 0..Len(s) :
     LET core == SubSeq(s, i, j)
     IN  /\ \A k \in 1..(i - 1) : IsWs(s[k])
         /\ \A k \in (j + 1)..Len(s) : IsWs(s[k])
         /\ Len(core) > 0 => ~IsWs(core[1]) /\ ~IsWs(core[Len(core)])
         /\ Len(core) = 0 => i = j + 1
         /\ out = IF Len(core) > 0 /\ core[Len(core)] = ";"
                  THEN core ELSE core \o <<";">>

(***************************************************************************)
(* C10                                                                     *)
(***************************************************************************)
\* C10 as stated: validate fails with the unsafe-query error exactly when
\* the candidate holds, as a whole word in any case, a keyword of creation,
\* deletion, property assignment, detachment-deletion, merge or removal;
\* otherwise it returns the trimmed candidate closed by the delimiter.
C10_AsStated ==
  vstate = "done" =>
    /\ ~vresult.ok <=> HasListedKeyword(candidate)
    /\ ~vresult.ok => vresult.err.kind = "unsafe"
    /\ vresult.ok => IsTrimmedAndDelimited(candidate, vresult.val)

\* C10 (amended): validate fails with the unsafe-query error exactly when the
\* candidate holds, as a whole word in any case, DROP or one of the keywords
\* of creation, deletion, property assignment, detachment-deletion, merge or
\* removal; for every other candidate it succeeds and returns the trimmed
\* candidate closed by the delimiter, appended only if absent.
C10_ValidateDenylist ==
  vstate = "done" =>
    /\ ~vresult.ok <=> (HasListedKeyword(candidate) \/ HasWord(candidate, W_DROP))
    /\ ~vresult.ok => vresult.err.kind = "unsafe"
    /\ vresult.ok => IsTrimmedAndDelimited(candidate, vresult.val)

\* a lower-case keyword glued to nothing is rejected, a keyword glued to a
\* word character is accepted, and a padded candidate is trimmed and closed
C10_Witness ==
  /\ vstate = "done"
  /\ \/ candidate = <<"s","e","t">> \o Sp \o <<"n">> /\ ~vresult.ok
     \/ candidate = W_SET \o <<"n">> \o Sp /\ vresult.ok
                                     /\ vresult.val = W_SET \o <<"n">> \o Semi

(***************************************************************************)
(* Vocabulary of the properties of the retry loop.                         *)
(***************************************************************************)
\* no denylisted keyword, and closed by the delimiter
IsReadOnlyStatement(q) ==
  /\ ~HasListedKeyword(q)
  /\ ~HasWord(q, W_DROP)
  /\ Len(q) > 0
  /\ q[Len(q)] = ";"

\* the retry loop of the current question has been left
SessionOver == pc \in {"prompt", "exited"} /\ asked > 0

(***************************************************************************)
(* C1                                                                      *)
(***************************************************************************)
\* C1: every statement handed to graph.query is what validate returned to
\* the Synthesizer call of the same attempt: it holds no denylisted keyword
\* and ends with ';'; execution is reached from nowhere else.
C1_ExecutedIsValidated ==
  /\ pc = "execute" =>
       /\ lastCall.op = "synth"
       /\ lastCall.ok
       /\ lastCall.attempt = attempt
       /\ lastCall.out = cypher
       /\ IsReadOnlyStatement(cypher)
  /\ lastCall.op = "exec" => IsReadOnlyStatement(lastCall.query)

\* an unfenced completion was executed after validate closed it with ';'
C1_Witness ==
  /\ lastCall.op = "exec"
  /\ lastCall.query = W_MATCH \o Sp \o <<"m">> \o Sp \o W_RETURN \o Semi

(***************************************************************************)
(* C2                                                                      *)
(***************************************************************************)
\* C2: graph.query is called at most 3 times for one question; once three
\* executions have failed the attempt counter is 3, no generation or
\* execution is pending, and the loop is left through the final failure.
C2_AtMostThreeExecutions ==
  /\ nExec <= 3
  /\ nExecFail = 3 =>
       /\ attempt = 3
       /\ pc \in {"except", "prompt", "exited"}
       /\ pc # "except" => exit = "final" /\ report.attempts = 3

\* three executions failed and the final failure was reported
C2_Witness ==
  /\ nExec = 3
  /\ nExecFail = 3
  /\ pc = "prompt"
  /\ exit = "final"

(***************************************************************************)
(* C3                                                                      *)
(***************************************************************************)
\* C3: after a failure below the ceiling for which the Repair Engine
\* returned a query, the controller stands at the execution of exactly that
\* query, with no Synthesizer call in between.
C3_RepairBypassesResynthesis ==
  (lastCall.op = "repair" /\ lastCall.ok) =>
     /\ pc = "execute"
     /\ cypher = lastCall.out

(***************************************************************************)
(* C4                                                                      *)
(***************************************************************************)
\* C4: every retry loop ends, in success or in failure, and the prompt is
\* reached again; within one loop there are at most 3 Synthesizer calls, 2
\* Repair Engine calls (none at attempt 3) and 3 executions, and every
\* raised error is caught by the loop.
C4_SessionEndsWithinBudget ==
  /\ [](/\ nSynth <= 3
        /\ nRepair <= 2
        /\ nExec <= 3
        /\ lastCall.op = "repair" => lastCall.attempt < 3
        /\ SessionOver => exit \in {"success", "no_initial", "final"})
  /\ (pc \in {"generate", "execute", "interpret", "except"}) ~> (pc = "prompt")

\* a loop that used the whole budget and came back to the prompt
C4_Witness ==
  /\ pc = "prompt"
  /\ exit = "final"
  /\ nSynth = 3
  /\ nRepair = 2
  /\ nExec = 3

(***************************************************************************)
(* C5                                                                      *)
(***************************************************************************)
\* C5: for every question, a Synthesizer failure on attempt 1 ends the
\* retry loop at once: no AttemptRecord is appended, the Repair Engine is
\* not called and the Synthesizer is not called again.
C5_FirstGenerationFailureEndsSession ==
  [][ (pc = "except" /\ attempt = 1 /\ exc.src = "generate") =>
        /\ pc' = "prompt"
        /\ previous_attempts' = previous_attempts
        /\ nRepair' = nRepair ]_vars

C7_UnsafeOnFirstAttemptIsRepaired ==
  [][ (pc = "except" /\ attempt = 1 /\ exc.kind = "unsafe") =>
        /\ Len(previous_attempts') = Len(previous_attempts) + 1
        /\ previous_attempts'[Len(previous_attempts')].error = exc
        /\ lastCall'.op = "repair"
        /\ lastCall'.error = exc ]_vars

(***************************************************************************)
(* C8                                                                      *)
(***************************************************************************)
\* C8: every query text recorded in an AttemptRecord, passed to the Repair
\* Engine, or shown as the last attempted query while question N is
\* processed was produced while question N was processed.
C8_NoQueryFromEarlierQuestion ==
  /\ \A k \in 1..Len(previous_attempts) : previous_attempts[k].origin = asked
  /\ lastCall.op = "repair" => lastCall.origin = asked
  /\ report.emitted /\ report.hasQuery => report.origin = asked

C11_ValidateIdempotent ==
  /\ vstate = "again" => vresult2.ok /\ vresult2.val = vresult.val
  /\ (/\ vstate \in {"done", "again"}
      /\ vresult.ok
      /\ Len(candidate) > 0
      /\ candidate[Len(candidate)] = ";"
      /\ ~IsWs(candidate[1])) => vresult.val = candidate

\* a candidate that needed trimming and the delimiter, validated twice
C11_Witness ==
  /\ vstate = "again"
  /\ candidate = Sp \o <<"n">> \o Nl
  /\ vresult.val = <<"n">> \o Semi
  /\ vresult2.val = <<"n">> \o Semi

(***************************************************************************)
(* Vocabulary of the properties of extract_cypher_from_response.           *)
(***************************************************************************)
\* lit stands in s at position i, up to case
Occurs(s, i, lit) ==
  /\ 1 <= i
  /\ i + Len(lit) - 1 <= Len(s)
  /\ UpperStr(SubSeq(s, i, i + Len(lit) - 1)) = UpperStr(lit)

\* v is x without its surrounding blanks
IsTrimOf(v, x) ==
  \E a \in 1..(Len(x) + 1) : \E b \in 0..Len(x) :
     /\ v = SubSeq(x, a, b)
     /\ \A k \in 1..(a - 1) : IsWs(x[k])
     /\ \A k \in (b + 1)..Len(x) : IsWs(x[k])
     /\ Len(v) > 0 => ~IsWs(v[1]) /\ ~IsWs(v[Len(v)])
     /\ Len(v) = 0 => a = b + 1

\* length of the language tag cypher or neo4j standing at position i
TagAt(s, i) ==
  IF Occurs(s, i, W_cypher) THEN 6 ELSE IF Occurs(s, i, W_neo4j) THEN 5 ELSE 0

\* a fence at i, its tag if any, and the nearest closing fence at k
IsBlock(s, i, k) ==
  /\ Occurs(s, i, Fence)
  /\ Occurs(s, k, Fence)
  /\ k >= i + 3 + TagAt(s, i + 3)
  /\ \A j \in (i + 3 + TagAt(s, i + 3))..(k - 1) : ~Occurs(s, j, Fence)

\* the text between the fences of the block, after its tag
BlockBody(s, i, k) == SubSeq(s, i + 3 + TagAt(s, i + 3), k - 1)

IsTaggedBlock(s, i, k) == IsBlock(s, i, k) /\ TagAt(s, i + 3) > 0

HasBlock(s) == \E i, k \in 1..Len(s) : IsBlock(s, i, k)

HasTaggedBlock(s) == \E i, k \in 1..Len(s) : IsTaggedBlock(s, i, k)

\* v is the trimmed body of the first block of s
IsFirstBlockBody(s, v) ==
  \E i, k \in 1..Len(s) :
     /\ IsBlock(s, i, k)
     /\ \A i2 \in 1..(i - 1) : \A k2 \in 1..Len(s) : ~IsBlock(s, i2, k2)
     /\ IsTrimOf(v, BlockBody(s, i, k))

\* v is the trimmed body of the first tagged block of s
IsFirstTaggedBlockBody(s, v) ==
  \E i, k \in 1..Len(s) :
     /\ IsTaggedBlock(s, i, k)
     /\ \A i2 \in 1..(i - 1) : \A k2 \in 1..Len(s) : ~IsTaggedBlock(s, i2, k2)
     /\ IsTrimOf(v, BlockBody(s, i, k))

HasMatchKeyword(s) == \E i \in 1..Len(s) : Occurs(s, i, W_MATCH)

\* the span that starts at position j ends at e: the return keyword or the
\* delimiter (both kept), a blank line, or the end of the text
StopsAt(s, j, e) ==
  \/ Occurs(s, j, W_RETURN) /\ e = j + 5
  \/ Occurs(s, j, <<";">>) /\ e = j
  \/ Occurs(s, j, <<"\n", "\n">>) /\ e = j + 1
  \/ j = Len(s) + 1 /\ e = Len(s)

\* v is the trimmed span from the first match keyword to the first stop
IsMatchSpan(s, v) ==
  \E i \in 1..Len(s) : \E j \in (i + 5)..(Len(s) + 1) : \E e \in 1..Len(s) :
     /\ Occurs(s, i, W_MATCH)
     /\ \A i2 \in 1..(i - 1) : ~Occurs(s, i2, W_MATCH)
     /\ StopsAt(s, j, e)
     /\ \A j2 \in (i + 5)..(j - 1) : \A e2 \in 1..Len(s) : ~StopsAt(s, j2, e2)
     /\ IsTrimOf(v, SubSeq(s, i, e))

HasGrammarKeyword(s) ==
  \E i \in 1..Len(s) :
     \/ Occurs(s, i, W_MATCH)
     \/ Occurs(s, i, W_RETURN)
     \/ Occurs(s, i, W_WHERE)
     \/ Occurs(s, i, W_WITH)

C13_InterpreterOnceAndDegrades ==
  /\ nInterp <= 1
  /\ pc = "interpret" => nInterp = 0 /\ lastCall.op = "exec" /\ lastCall.ok
  /\ nInterp = 1 => exit = "success" /\ SessionOver
  /\ (asked > 0 /\ exit = "success") =>
       /\ nInterp = 1
       /\ nExecFail = nExec - 1
       /\ IF Len(results) = 0
          THEN ai_answer.kind = "fixed" /\ nAnswer = 0
          ELSE /\ nAnswer = 1
               /\ ai_answer.kind \in {"analysis", "degraded"}
               /\ ai_answer.kind = "degraded" =>
                    /\ ai_answer.rows = Len(results)
                    /\ ai_answer.error.kind = "api"

\* a success whose analysis call failed
C13_Witness ==
  /\ SessionOver
  /\ exit = "success"
  /\ ai_answer.kind = "degraded"
  /\ ai_answer.rows = 2

(***************************************************************************)
(* C14                                                                     *)
(***************************************************************************)
\* C14: the Repair Engine never raises: whatever fails inside it, it
\* returns null, and a query it returns went through the Validator; after
\* every call, null or not, the retry loop goes on with the next attempt.
C14_RepairNeverRaises ==
  lastCall.op = "repair" =>
    /\ pc = "generate"
    /\ exit = "running"
    /\ ~report.emitted
    /\ lastCall.attempt < 3
    /\ attempt = lastCall.attempt + 1
    /\ lastCall.ok => IsReadOnlyStatement(lastCall.out) /\ cypher = lastCall.out
    /\ ~lastCall.ok => lastCall.out = << >> /\ cypher = lastCall.query

\* a repair that returned null on attempt 2, and the loop going on
C14_Witness ==
  /\ lastCall.op = "repair"
  /\ ~lastCall.ok
  /\ lastCall.attempt = 2
  /\ pc = "generate"
  /\ attempt = 3

(***************************************************************************)
(* C15                                                                     *)
(***************************************************************************)
\* C15: at the prompt, exit, quit or q (any case, trimmed) ends the loop
\* for good without any collaborator call; an empty line starts nothing and
\* the prompt comes again; any other line starts one retry loop with attempt
\* counter 1 and no AttemptRecord.
C15_PromptLoop ==
  [][ /\ pc # "exited"
      /\ pc = "prompt" =>
           IF UpperStr(question') \in { <<"E","X","I","T">>,
                                        <<"Q","U","I","T">>, <<"Q">> }
           THEN /\ pc' = "exited"
                /\ UNCHANGED obsVars
                /\ UNCHANGED <<asked, attempt, previous_attempts>>
           ELSE IF Len(question') = 0
           THEN /\ pc' = "prompt"
                /\ UNCHANGED obsVars
                /\ UNCHANGED <<asked, attempt, previous_attempts>>
           ELSE /\ pc' = "generate"
                /\ asked' = asked + 1
                /\ attempt' = 1
                /\ previous_attempts' = << >>
                /\ nSynth' = 0 /\ nRepair' = 0 /\ nExec' = 0 /\ nInterp' = 0
                /\ lastCall'.op = "" ]_vars

\* 'Quit' typed after one question was processed
C15_Witness ==
  /\ pc = "exited"
  /\ question = <<"Q","u","i","t">>
  /\ asked = 1

(***************************************************************************)
(* C16                                                                     *)
(***************************************************************************)
\* C16: the error passed to the Repair Engine, and the error recorded in an
\* AttemptRecord, was raised by validating or executing exactly the query
\* passed or recorded with it.
C16_ErrorBelongsToQuery ==
  /\ \A k \in 1..Len(previous_attempts) :
        /\ previous_attempts[k].error.kind \in {"db", "unsafe"}
        /\ previous_attempts[k].error.subject = previous_attempts[k].query
  /\ lastCall.op = "repair" =>
        /\ lastCall.error.kind \in {"db", "unsafe"}
        /\ lastCall.error.subject = lastCall.query

(***************************************************************************)
(* C17                                                                     *)
(***************************************************************************)
\* C17: a successful execution appends no AttemptRecord and leaves the
\* attempt counter alone; the Result Interpreter then receives exactly the
\* executed query and the returned rows, the retry loop ends in success, and
\* no Synthesizer, Repair Engine or execution call follows for that question.
C17_SuccessIsTerminal ==
  [][ /\ (pc = "execute" /\ pc' = "interpret") =>
            /\ UNCHANGED <<previous_attempts, attempt>>
            /\ lastCall'.op = "exec"
            /\ lastCall'.ok
            /\ lastCall'.query = cypher
            /\ lastCall'.rows = results'
      /\ pc = "interpret" =>
            /\ lastCall.op = "exec"
            /\ lastCall.ok
            /\ pc' = "prompt"
            /\ exit' = "success"
            /\ UNCHANGED <<previous_attempts, attempt, nSynth, nRepair, nExec>>
            /\ lastCall'.op = "interpret"
            /\ lastCall'.query = lastCall.query
            /\ lastCall'.rows = lastCall.rows
      /\ exit = "success" =>
            \/ asked' = asked + 1
            \/ UNCHANGED <<previous_attempts, attempt, nSynth, nRepair, nExec,
                           nInterp, lastCall>> ]_vars

\* the second attempt succeeded and its two rows reached the interpreter
C17_Witness ==
  /\ SessionOver
  /\ exit = "success"
  /\ attempt = 2
  /\ Len(previous_attempts) = 1
  /\ lastCall.op = "interpret"
  /\ lastCall.query = cypher
  /\ Len(lastCall.rows) = 2

(***************************************************************************)
(* C18                                                                     *)
(***************************************************************************)
\* s is an initial part of t
IsPrefix(s, t) == Len(s) <= Len(t) /\ SubSeq(t, 1, Len(s)) = s

\* C18: within one retry loop the AttemptRecord sequence only grows and
\* keeps step with the attempt counter: the Synthesizer call of attempt k
\* receives exactly the k-1 records numbered 1..k-1, in order, and no prior
\* context when k = 1; a null repair raises the attempt counter by exactly
\* one before the next Synthesizer call.
C18_RecordsInStepWithAttempt ==
  /\ [](/\ asked > 0 =>
             /\ attempt \in 1..3
             /\ Len(previous_attempts) = attempt - 1
             /\ \A k \in 1..Len(previous_attempts) :
                   previous_attempts[k].attempt = k
        /\ lastCall.op = "synth" =>
             /\ lastCall.attempt = attempt
             /\ lastCall.prior = previous_attempts
             /\ Len(lastCall.prior) = lastCall.attempt - 1
             /\ lastCall.hasPrior <=> lastCall.attempt > 1)
  /\ [][ /\ asked' = asked => IsPrefix(previous_attempts, previous_attempts')
         /\ (nRepair' = nRepair + 1 /\ ~lastCall'.ok) =>
               /\ attempt' = attempt + 1
               /\ pc' = "generate"
         /\ nSynth' = nSynth + 1 =>
               /\ lastCall'.prior = previous_attempts
               /\ lastCall'.attempt = attempt ]_vars

\* the Synthesizer call of attempt 3 with the records of attempts 1 and 2
C18_Witness ==
  /\ lastCall.op = "synth"
  /\ lastCall.attempt = 3
  /\ Len(lastCall.prior) = 2
  /\ lastCall.prior[1].attempt = 1
  /\ lastCall.prior[2].attempt = 2
  /\ lastCall.hasPrior

====
